---- MODULE Spec2Model ----
(***************************************************************************)
(* Model of worker/src/queues/ingestionQueue.ts: the BullMQ processor that *)
(* lists the S3 fragments of one event body, downloads and validates them  *)
(* concurrently, flattens them and hands them to IngestionService          *)
(* .mergeAndWrite.                                                          *)
(*                                                                         *)
(* Strings the code computes on (the job's type tag, the listing prefix,   *)
(* the storage keys) are sequences of one-character strings.  Every        *)
(* synchronous stretch of the processor between two awaits is one action.  *)
(***************************************************************************)
EXTENDS Integers, Sequences, FiniteSets, TLC

\* ---------------------------------------------------------------- bounds
MaxTypeLen == 3     \* longest job type tag
MaxFiles == 2       \* most keys one listing returns
MaxBatch == 2       \* most records in one fragment's array
MaxTime == 1        \* last clock value

\* ---------------------------------------------------------------- inputs
TypeChars == {"t", "-"}
ProjectIds == {<<"p">>, <<"q">>}
EventBodyIds == {<<"b">>}
UploadPrefixes == {<<"e", "/">>}

\* type tags of well-formed events (the discriminator of ingestionEvent)
EventTypes == {"trace-create", "score-create"}

\* one JSON record as found in a fragment
Records ==
    { [type |-> "trace-create", id |-> "t1"],
      [type |-> "score-create", id |-> "s1"],
      [type |-> "unexpected", id |-> "shape"] }

RECURSIVE SeqsUpTo(_, _)
SeqsUpTo(S, n) ==
    IF n = 0 THEN {<<>>}
    ELSE LET shorter == SeqsUpTo(S, n - 1)
         IN shorter \cup {Append(s, x) : s \in {t \in shorter : Len(t) = n - 1}, x \in S}

TypeTags == SeqsUpTo(TypeChars, MaxTypeLen)

\* the text of one stored fragment
Files ==
    {[kind |-> "invalidJson", body |-> <<>>]}
    \cup {[kind |-> "object", body |-> <<r>>] : r \in Records}
    \cup {[kind |-> "array", body |-> b] : b \in SeqsUpTo(Records, MaxBatch)}

NoFile == [kind |-> "none", body |-> <<>>]
NoError == [message |-> "none", detail |-> "none", origin |-> 0]
NoJob == [type |-> <<>>, projectId |-> <<>>, eventBodyId |-> <<>>, timestamp |-> 0]

VARIABLES
    env,                      \* the parsed process environment
    s3StorageServiceClient,   \* module-level cached client: "undefined" or the bucket it was built for
    constructed,              \* how many S3StorageService objects were constructed so far
    job,                      \* the job of the current attempt
    pc,                       \* where the processor is suspended
    now,                      \* Date.now()
    startTime,                \* const startTime of the attempt
    eventName,                \* const eventName of the attempt
    eventFiles,               \* const eventFiles: the listed keys
    tasks,                    \* per listed key: state of the async callback of eventFiles.map
    downloaded,               \* per listed key: the text download(key) resolved with
    results,                  \* per listed key: the value the callback returned
    settleOrder,              \* indices of the callbacks in the order they settled
    events,                   \* const events: the flattened array
    validations,              \* per listed key: the schemas its callback tried, in order
    redis,                    \* the imported redis binding as the attempt finds it
    prisma,                   \* the imported prisma binding as the attempt finds it
    calls,                    \* every call to a collaborator in this attempt, in program order
    thrown                    \* the error the attempt rejected with

vars == <<env, s3StorageServiceClient, constructed, job, pc, now, startTime, eventName,
          eventFiles, tasks, downloaded, results, settleOrder, events, validations,
          redis, prisma, calls, thrown>>

\* ------------------------------------------------------- pure functions

\* String.prototype.split("-"): scan the characters, closing a segment at each "-"
RECURSIVE SplitFrom(_, _, _)
SplitFrom(s, i, cur) ==
    IF i > Len(s) THEN <<cur>>
    ELSE IF s[i] = "-" THEN <<cur>> \o SplitFrom(s, i + 1, <<>>)
    ELSE SplitFrom(s, i + 1, Append(cur, s[i]))

Split(s) == SplitFrom(s, 1, <<>>)

\* Array.prototype.shift(): the first element (split never returns an empty array)
Shift(a) == Head(a)

\* pop() in place of shift(): the last segment
EventNameOfLast(type) == Split(type)[Len(Split(type))]

\* job.data.payload.data.type.split("-").shift()
EventNameOf(type) == Shift(Split(type))

\* the template literal handed to listFiles
ListPrefix(prefix, projectId, name, eventBodyId) ==
    prefix \o projectId \o <<"/">> \o name \o <<"/">> \o eventBodyId \o <<"/">>

\* the i-th key a listing under prefix returns
KeyOf(prefix, i) == Append(prefix, ToString(i))

\* JSON.parse(file) throws on text that is not JSON
JsonParses(file) == file.kind # "invalidJson"

\* ingestionEvent: a record whose type is one of the known event types
IsEvent(r) == r.type \in EventTypes

\* ingestionBatchEvent.safeParse(parsedFile).success: an array of events
BatchParses(file) ==
    file.kind = "array" /\ \A k \in 1..Len(file.body) : IsEvent(file.body[k])

\* ingestionEvent.safeParse(parsedFile).success: one event
SingleParses(file) == file.kind = "object" /\ IsEvent(file.body[1])

\* errors; origin stands for the identity of the Error object (0: the main flow,
\* i: the callback of the i-th key)
Err(message, detail, origin) == [message |-> message, detail |-> detail, origin |-> origin]

\* the text of an Error's message: the template literal of line 89 puts the schema
\* error's message after the fixed text
ErrorMessage(e) == <<e.message, ": ", e.detail>>

\* a callback that tries the single-event schema before the batch schema
ParseFileSingleFirst(file, i) ==
    IF ~JsonParses(file)
    THEN [ok |-> FALSE, value |-> <<>>, tried |-> <<>>, error |-> Err("SyntaxError", "JSON", i)]
    ELSE IF SingleParses(file)
    THEN [ok |-> TRUE, value |-> <<file.body[1]>>, tried |-> <<"single">>, error |-> NoError]
    ELSE IF BatchParses(file)
    THEN [ok |-> TRUE, value |-> file.body, tried |-> <<"single", "batch">>,
          error |-> NoError]
    ELSE [ok |-> FALSE, value |-> <<>>, tried |-> <<"single", "batch">>,
          error |-> Err("Failed to parse event from S3", "ZodError", i)]

\* a callback that skips a fragment of neither shape instead of throwing
ParseFileSkipsInvalid(file, i) ==
    IF ~JsonParses(file)
    THEN [ok |-> FALSE, value |-> <<>>, tried |-> <<>>, error |-> Err("SyntaxError", "JSON", i)]
    ELSE IF BatchParses(file)
    THEN [ok |-> TRUE, value |-> file.body, tried |-> <<"batch">>, error |-> NoError]
    ELSE IF SingleParses(file)
    THEN [ok |-> TRUE, value |-> <<file.body[1]>>, tried |-> <<"batch", "single">>,
          error |-> NoError]
    ELSE [ok |-> TRUE, value |-> <<>>, tried |-> <<"batch", "single">>, error |-> NoError]

\* what the callback of eventFiles.map does with the downloaded text (lines 78-92);
\* tried lists the safeParse calls it makes
ParseFile(file, i) ==
    IF ~JsonParses(file)
    THEN [ok |-> FALSE, value |-> <<>>, tried |-> <<>>, error |-> Err("SyntaxError", "JSON", i)]
    ELSE IF BatchParses(file)
    THEN [ok |-> TRUE, value |-> file.body, tried |-> <<"batch">>, error |-> NoError]
    ELSE IF SingleParses(file)
    THEN [ok |-> TRUE, value |-> <<file.body[1]>>, tried |-> <<"batch", "single">>,
          error |-> NoError]
    ELSE [ok |-> FALSE, value |-> <<>>, tried |-> <<"batch", "single">>,
          error |-> Err("Failed to parse event from S3", "ZodError", i)]

\* the arrays concatenated last to first
RECURSIVE FlatBackFrom(_, _)
FlatBackFrom(arrs, i) == IF i < 1 THEN <<>> ELSE arrs[i] \o FlatBackFrom(arrs, i - 1)
FlatBackwards(arrs) == FlatBackFrom(arrs, Len(arrs))

\* Array.prototype.flat() over the array Promise.all resolved with
RECURSIVE FlatFrom(_, _)
FlatFrom(arrs, i) == IF i > Len(arrs) THEN <<>> ELSE arrs[i] \o FlatFrom(arrs, i + 1)

Flat(arrs) == FlatFrom(arrs, 1)

\* getClickhouseEntityType(event)
GetClickhouseEntityType(event) ==
    IF event.type = "trace-create" THEN "trace"
    ELSE IF event.type = "score-create" THEN "score"
    ELSE "observation"

\* events[0]: undefined on an empty array
Undefined == [type |-> "undefined", id |-> "undefined"]
\* the last event taken for the first
LastForFirst(evs) == IF Len(evs) = 0 THEN Undefined ELSE evs[Len(evs)]

First(evs) == IF Len(evs) = 0 THEN Undefined ELSE evs[1]

Call(op, arg) == [op |-> op, arg |-> arg]

ProjectIdOf(j) == j.projectId

\* a catch block that also records the processing time
CatchCallsRecordsTime(j, e) ==
    << Call("recordHistogram", [name |-> "langfuse.queue.ingestion.processing_time",
                                value |-> 0]),
       Call("logger.error", [projectId |-> ProjectIdOf(j), error |-> e]),
       Call("traceException", e) >>

\* the catch block (lines 141-148): log, trace, rethrow
CatchCalls(j, e) ==
    << Call("logger.error", [projectId |-> ProjectIdOf(j), error |-> e]),
       Call("traceException", e) >>

\* a catch block that does not rethrow: the processor's promise resolves
Swallow(e) == [state |-> "completed", error |-> NoError]

Rethrow(e) == [state |-> "failed", error |-> e]

\* the two conditions joined the wrong way: one of flag and bucket suffices
ConfigOkEither(e) == e.enabled = "true" \/ e.bucket # ""

\* ConfigOk: the negation of the condition of lines 47-50
ConfigOk(e) == e.enabled = "true" /\ e.bucket # ""

\* a client constructed on every call
GetFreshClient(client, bucketName) == [client |-> bucketName, made |-> 1]

\* getS3StorageServiceClient (lines 27-39): the cached client, constructed when absent
GetS3StorageServiceClient(client, bucketName) ==
    IF client = "undefined"
    THEN [client |-> bucketName, made |-> 1]
    ELSE [client |-> client, made |-> 0]

\* the emptiness check left out
NoEventsNever(evs) == FALSE

\* events.length === 0 (line 97)
NoEvents(evs) == Len(evs) = 0

\* the values collected in the order the callbacks settle
StoreInSettleOrder(res, i, value) == [res EXCEPT ![Len(settleOrder) + 1] = value]

\* Promise.all: the array of the callbacks' values, each at the index of its key
StoreResult(res, i, value) == [res EXCEPT ![i] = value]

\* Promise.all rejects as soon as one callback rejects
AnyRejected(ts) == \E k \in 1..Len(ts) : ts[k] = "rejected"

\* resolving as soon as one callback has fulfilled
SomeFulfilled(ts) == \E k \in 1..Len(ts) : ts[k] = "fulfilled"

\* Promise.all resolves once every callback has fulfilled
AllFulfilled(ts) == \A k \in 1..Len(ts) : ts[k] = "fulfilled"

QueueCounts == {0, 7}

\* ---------------------------------------------------------------- state

Init ==
    /\ env \in [enabled : {"true", "false"}, bucket : {"", "events"}, prefix : UploadPrefixes]
    /\ s3StorageServiceClient = "undefined"
    /\ constructed = 0
    /\ job = NoJob
    /\ pc = "idle"
    /\ now = 0
    /\ startTime = 0
    /\ eventName = <<>>
    /\ eventFiles = <<>>
    /\ tasks = <<>>
    /\ downloaded = <<>>
    /\ results = <<>>
    /\ settleOrder = <<>>
    /\ events = <<>>
    /\ validations = <<>>
    /\ redis = "unread"
    /\ prisma = "unread"
    /\ calls = <<>>
    /\ thrown = NoError

\* the processor's promise has settled
Settled == {"completed", "failed"}

\* the attempt rejects with e after the calls cs have been made
Fail(j, cs, e) ==
    /\ calls' = cs \o CatchCalls(j, e)
    /\ pc' = Rethrow(e).state
    /\ thrown' = Rethrow(e).error

\* an empty batch treated as an error
SkipEmptyThrows(j, cs) == Fail(j, cs, Err("No events found", "none", 0))

\* lines 98-101: warn and return
SkipEmpty(j, cs) ==
    /\ calls' = Append(cs, Call("logger.warn",
                    [projectId |-> j.projectId, eventBodyId |-> j.eventBodyId]))
    /\ pc' = "completed"
    /\ thrown' = NoError

\* what the imports redis and prisma can be (lines 15, 19): a client or null
Bindings == {"client", "null"}

\* the two clients checked before the emptiness of the batch
AfterAssemblyChecksClientsFirst(j, cs, res) ==
    LET evs == Flat(res) IN
    /\ events' = evs
    /\ redis' \in Bindings
    /\ prisma' \in Bindings
    /\ IF redis' = "null" THEN Fail(j, cs, Err("Redis not available", "none", 0))
       ELSE IF prisma' = "null" THEN Fail(j, cs, Err("Prisma not available", "none", 0))
       ELSE IF NoEvents(evs) THEN SkipEmpty(j, cs)
       ELSE /\ calls' = Append(cs, Call("mergeAndWrite",
                         [entityType |-> GetClickhouseEntityType(First(evs)),
                          projectId |-> j.projectId,
                          eventBodyId |-> j.eventBodyId,
                          events |-> evs]))
            /\ pc' = "merging"
            /\ thrown' = NoError

\* lines 95-117, run when Promise.all has resolved with res: flatten, skip an empty
\* batch, otherwise check the clients and call mergeAndWrite.  The attempt meets
\* the two bindings here, where the code first depends on them.
AfterAssembly(j, cs, res) ==
    LET evs == Flat(res) IN
    /\ events' = evs
    /\ redis' \in Bindings
    /\ prisma' \in Bindings
    /\ IF NoEvents(evs)
       THEN SkipEmpty(j, cs)
       ELSE   IF redis' = "null" THEN Fail(j, cs, Err("Redis not available", "none", 0))
              ELSE IF prisma' = "null" THEN Fail(j, cs, Err("Prisma not available", "none", 0))
              ELSE /\ calls' = Append(cs, Call("mergeAndWrite",
                                [entityType |-> GetClickhouseEntityType(First(evs)),
                                 projectId |-> j.projectId,
                                 eventBodyId |-> j.eventBodyId,
                                 events |-> evs]))
                   /\ pc' = "merging"
                   /\ thrown' = NoError

\* the clock moves on while the processor is suspended
Elapse == \E d \in 0..(MaxTime - now) : now' = now + d

\* lines 44-72: the worker hands a job to the processor, which runs up to the
\* await of listFiles
Start ==
    /\ pc = "idle"
    /\ Elapse
    /\ \E type \in TypeTags, projectId \in ProjectIds, eventBodyId \in EventBodyIds,
          timestamp \in 0..now' :
         job' = [type |-> type, projectId |-> projectId, eventBodyId |-> eventBodyId,
                 timestamp |-> timestamp]
    /\ startTime' = now'
    /\ eventFiles' = <<>>
    /\ tasks' = <<>>
    /\ downloaded' = <<>>
    /\ results' = <<>>
    /\ settleOrder' = <<>>
    /\ events' = <<>>
    /\ validations' = <<>>
    /\ UNCHANGED <<env, redis, prisma>>
    /\ IF ~ConfigOk(env)
       THEN /\ Fail(job', <<>>, Err("S3 event store is not enabled but useS3EventStore is true",
                              "none", 0))
            /\ eventName' = <<>>
            /\ UNCHANGED <<s3StorageServiceClient, constructed>>
       ELSE LET got == GetS3StorageServiceClient(s3StorageServiceClient, env.bucket)
                made == IF got.made = 1
                        THEN <<Call("new S3StorageService", env.bucket)>> ELSE <<>>
                name == EventNameOf(job'.type)
            IN /\ s3StorageServiceClient' = got.client
               /\ constructed' = constructed + got.made
               /\ eventName' = name
               /\ IF name = <<>>
                  THEN Fail(job', made, Err("Event name not found", "none", 0))
                  ELSE /\ calls' = made \o
                          << Call("logger.info", [projectId |-> job'.projectId]),
                             Call("listFiles", ListPrefix(env.prefix, job'.projectId, name,
                                                          job'.eventBodyId)) >>
                       /\ pc' = "listing"
                       /\ thrown' = NoError

\* every download issued a second time
DownloadCallsRetried(keys) ==
    [i \in 1..(2 * Len(keys)) |-> Call("download", keys[((i - 1) % Len(keys)) + 1])]

\* eventFiles.map (lines 76-77): each callback calls download(key) as it starts
DownloadCalls(keys) == [i \in 1..Len(keys) |-> Call("download", keys[i])]

\* the prefix the pending listFiles was called with
ListedPrefix == calls[Len(calls)].arg

\* listFiles resolves with n keys; lines 74-77 start one callback per key, each of
\* which calls download before it first suspends
ListResolves ==
    /\ pc = "listing"
    /\ Elapse
    /\ \E n \in 0..MaxFiles :
         LET keys == [i \in 1..n |-> KeyOf(ListedPrefix, i)]
             cs == calls \o DownloadCalls(keys)
         IN /\ eventFiles' = keys
            /\ tasks' = [i \in 1..n |-> "downloading"]
            /\ downloaded' = [i \in 1..n |-> NoFile]
            /\ results' = [i \in 1..n |-> <<>>]
            /\ validations' = [i \in 1..n |-> <<>>]
            /\ settleOrder' = <<>>
            /\ IF n = 0
               THEN AfterAssembly(job, cs, <<>>)
               ELSE /\ calls' = cs
                    /\ pc' = "downloading"
                    /\ UNCHANGED <<events, thrown, redis, prisma>>
    /\ UNCHANGED <<env, s3StorageServiceClient, constructed, job, startTime, eventName>>

\* listFiles rejects
ListRejects ==
    /\ pc = "listing"
    /\ Elapse
    /\ Fail(job, calls, Err("listFiles failed", "none", 0))
    /\ UNCHANGED <<env, s3StorageServiceClient, constructed, job, startTime, eventName,
                   eventFiles, tasks, downloaded, results, settleOrder, events,
                   validations, redis, prisma>>

\* the callback of key i has settled as outcome: what Promise.all and the code
\* awaiting it do (the callbacks still running after a rejection are not awaited)
CallbackSettles(i, outcome) ==
    /\ tasks' = [tasks EXCEPT ![i] = IF outcome.ok THEN "fulfilled" ELSE "rejected"]
    /\ results' = IF outcome.ok THEN StoreResult(results, i, outcome.value) ELSE results
    /\ settleOrder' = Append(settleOrder, i)
    /\ validations' = [validations EXCEPT ![i] = outcome.tried]
    /\ IF pc # "downloading"
       THEN UNCHANGED <<pc, events, calls, thrown, redis, prisma>>
       ELSE IF AnyRejected(tasks')
       THEN /\ Fail(job, calls, outcome.error)
            /\ UNCHANGED <<events, redis, prisma>>
       ELSE IF AllFulfilled(tasks')
       THEN AfterAssembly(job, calls, results')
       ELSE UNCHANGED <<pc, events, calls, thrown, redis, prisma>>

\* download(key) resolves with the text of the fragment; lines 78-92 parse it
DownloadResolves(i) ==
    /\ i \in 1..Len(tasks)
    /\ tasks[i] = "downloading"
    /\ Elapse
    /\ \E file \in Files :
         /\ downloaded' = [downloaded EXCEPT ![i] = file]
         /\ CallbackSettles(i, ParseFile(file, i))
    /\ UNCHANGED <<env, s3StorageServiceClient, constructed, job, startTime, eventName,
                   eventFiles>>

\* download(key) rejects
DownloadRejects(i) ==
    /\ i \in 1..Len(tasks)
    /\ tasks[i] = "downloading"
    /\ Elapse
    /\ CallbackSettles(i, [ok |-> FALSE, value |-> <<>>, tried |-> <<>>,
                            error |-> Err("download failed", "none", i)])
    /\ UNCHANGED <<env, s3StorageServiceClient, constructed, job, startTime, eventName,
                   eventFiles, downloaded>>

\* lines 136-140: the processing time, then the processor returns
Finish(cs) ==
    /\ calls' = Append(cs, Call("recordHistogram",
                    [name |-> "langfuse.queue.ingestion.processing_time",
                     value |-> now' - startTime]))
    /\ pc' = "completed"
    /\ thrown' = NoError

\* mergeAndWrite resolves; lines 119-127 record the request and the wait time and
\* ask the queue for its length (getInstance() may be null)
MergeResolves ==
    /\ pc = "merging"
    /\ Elapse
    /\ LET cs == calls \o
             << Call("recordIncrement", "langfuse.queue.ingestion.request"),
                Call("recordHistogram", [name |-> "langfuse.queue.ingestion.wait_time",
                                         value |-> now' - job.timestamp]) >>
       IN \E queue \in BOOLEAN :
            IF queue
            THEN /\ calls' = Append(cs, Call("count", "IngestionQueue"))
                 /\ pc' = "counting"
                 /\ thrown' = NoError
            ELSE Finish(cs)
    /\ UNCHANGED <<env, s3StorageServiceClient, constructed, job, startTime, eventName,
                   eventFiles, tasks, downloaded, results, settleOrder, events,
                   validations, redis, prisma>>

\* mergeAndWrite rejects
MergeRejects ==
    /\ pc = "merging"
    /\ Elapse
    /\ Fail(job, calls, Err("mergeAndWrite failed", "none", 0))
    /\ UNCHANGED <<env, s3StorageServiceClient, constructed, job, startTime, eventName,
                   eventFiles, tasks, downloaded, results, settleOrder, events,
                   validations, redis, prisma>>

\* count() resolves: lines 128-134 log and record the length
CountResolves ==
    /\ pc = "counting"
    /\ Elapse
    /\ \E count \in QueueCounts :
         Finish(calls \o << Call("logger.debug", count),
                            Call("recordGauge", [name |-> "langfuse.queue.ingestion.length",
                                                 value |-> count]) >>)
    /\ UNCHANGED <<env, s3StorageServiceClient, constructed, job, startTime, eventName,
                   eventFiles, tasks, downloaded, results, settleOrder, events,
                   validations, redis, prisma>>

\* count() rejects: .catch() without a handler (line 135) passes the rejection on,
\* so the await of line 126 throws into the catch block
CountRejects ==
    /\ pc = "counting"
    /\ Elapse
    /\ Fail(job, calls, Err("count failed", "none", 0))
    /\ UNCHANGED <<env, s3StorageServiceClient, constructed, job, startTime, eventName,
                   eventFiles, tasks, downloaded, results, settleOrder, events,
                   validations, redis, prisma>>

\* the processor is suspended at an await
Suspended == {"listing", "downloading", "merging", "counting"}

\* While this attempt is suspended the worker starts the attempt of another job,
\* which runs lines 44-58 before it first suspends.  Of that attempt the model
\* keeps what it does to the module state: the cached client.
OtherAttemptStarts ==
    /\ pc \in Suspended
    /\ IF ConfigOk(env)
       THEN LET got == GetS3StorageServiceClient(s3StorageServiceClient, env.bucket)
            IN /\ s3StorageServiceClient' = got.client
               /\ constructed' = constructed + got.made
       ELSE UNCHANGED <<s3StorageServiceClient, constructed>>
    /\ UNCHANGED <<env, job, pc, now, startTime, eventName, eventFiles, tasks, downloaded,
                   results, settleOrder, events, validations, redis, prisma, calls, thrown>>

\* the worker has taken the outcome of the attempt: the processor's locals are gone
\* and the worker is free for its next job (callbacks of a rejected Promise.all that
\* are still running have no effect any more)
Release ==
    /\ pc \in Settled
    /\ pc' = "idle"
    /\ job' = NoJob
    /\ startTime' = 0
    /\ eventName' = <<>>
    /\ eventFiles' = <<>>
    /\ tasks' = <<>>
    /\ downloaded' = <<>>
    /\ results' = <<>>
    /\ settleOrder' = <<>>
    /\ events' = <<>>
    /\ validations' = <<>>
    /\ redis' = "unread"
    /\ prisma' = "unread"
    /\ calls' = <<>>
    /\ thrown' = NoError
    /\ UNCHANGED <<env, s3StorageServiceClient, constructed, now>>

Next ==
    \/ Start
    \/ OtherAttemptStarts
    \/ Release
    \/ ListResolves
    \/ ListRejects
    \/ \E i \in 1..MaxFiles : DownloadResolves(i)
    \/ \E i \in 1..MaxFiles : DownloadRejects(i)
    \/ MergeResolves
    \/ MergeRejects
    \/ CountResolves
    \/ CountRejects

Spec == Init /\ [][Next]_vars

\* ------------------------------------------------------------- the claims

CallsOf(op) == SelectSeq(calls, LAMBDA c : c.op = op)
Count(op) == Len(CallsOf(op))

\* the assembly of the attempt has finished: Promise.all resolved and flat() ran
Assembled ==
    /\ Count("listFiles") = 1
    /\ pc \notin {"idle", "listing", "downloading"}
    /\ thrown.message # "listFiles failed"
    /\ \A i \in 1..Len(tasks) : tasks[i] = "fulfilled"

\* what a fragment must contribute: the records of a valid array, the one record of
\* a valid object
ValidFragment(file) ==
    \/ file.kind = "array" /\ \A k \in 1..Len(file.body) : file.body[k].type \in EventTypes
    \/ file.kind = "object" /\ file.body[1].type \in EventTypes
Contribution(file) == IF file.kind = "array" THEN file.body ELSE <<file.body[1]>>

\* C1: in every attempt mergeAndWrite is called at most once, and only with a
\* non-empty flattened event sequence.
C1_MergeAtMostOnceNonEmpty ==
    /\ Count("mergeAndWrite") <= 1
    /\ \A k \in 1..Len(calls) :
         calls[k].op = "mergeAndWrite" => Len(events) > 0 /\ Len(calls[k].arg.events) > 0

C1_Witness == pc = "merging" /\ Count("mergeAndWrite") = 1 /\ Len(events) = 3

\* the download of fragment i, or its validation, has failed
FragmentFailed(i) ==
    /\ tasks[i] # "downloading"
    /\ downloaded[i] = NoFile \/ ~ValidFragment(downloaded[i])

\* C2: once the download or the validation of one listed fragment has failed, the
\* attempt has failed and mergeAndWrite was not called, whatever the other
\* fragments hold and in whatever order the callbacks settle.
C2_FragmentFailureFailsAttempt ==
    \A i \in 1..Len(tasks) :
        FragmentFailed(i) =>
            pc = "failed" /\ thrown # NoError /\ Count("mergeAndWrite") = 0

C2_Witness ==
    /\ Len(tasks) = 2
    /\ settleOrder = <<1, 2>>
    /\ downloaded[1].kind = "array" /\ Len(downloaded[1].body) = 2 /\ ValidFragment(downloaded[1])
    /\ downloaded[2].kind = "object" /\ ~ValidFragment(downloaded[2])
    /\ pc = "failed"

\* the number of events the fragments before fragment i contribute
RECURSIVE Offset(_)
Offset(i) == IF i <= 1 THEN 0 ELSE Offset(i - 1) + Len(Contribution(downloaded[i - 1]))

\* C3: when every listed fragment is valid, each fragment's records stand in the
\* assembled sequence at the fragment's place in the listing, in the array's
\* order (one record for a single event), and nothing else is in the sequence.
C3_AssembledIsConcatenation ==
    Assembled =>
        /\ Len(events) = Offset(Len(tasks) + 1)
        /\ \A i \in 1..Len(tasks) :
             LET c == Contribution(downloaded[i])
             IN \A k \in 1..Len(c) : events[Offset(i) + k] = c[k]

C3_Witness ==
    /\ Assembled
    /\ Len(tasks) = 2
    /\ downloaded[1].kind = "object"
    /\ downloaded[2].kind = "array" /\ Len(downloaded[2].body) = 2
    /\ downloaded[2].body[1] # downloaded[2].body[2]
    /\ Len(events) = 3

\* the contributions of fragments 1..i, concatenated in listing order
RECURSIVE ListingOrder(_)
ListingOrder(i) ==
    IF i = 0 THEN <<>> ELSE ListingOrder(i - 1) \o Contribution(downloaded[i])

\* C4: every listed key has its download under way before any callback settles,
\* and in whatever order the callbacks settle the assembled sequence is the
\* fragments' contributions in listing order.
C4_OrderIndependentOfCompletion ==
    /\ pc = "downloading" =>
         /\ Count("download") = Len(eventFiles)
         /\ \A i \in 1..Len(eventFiles) : CallsOf("download")[i].arg = eventFiles[i]
    /\ pc = "downloading" /\ settleOrder = <<>> =>
         \A i \in 1..Len(tasks) : tasks[i] = "downloading"
    /\ Assembled => events = ListingOrder(Len(tasks))

C4_Witness ==
    /\ Assembled
    /\ settleOrder = <<2, 1>>
    /\ Len(results[1]) > 0 /\ Len(results[2]) > 0
    /\ results[1] # results[2]

\* every listed fragment was accepted and none contributed a record
NothingAssembled ==
    /\ Assembled
    /\ \A i \in 1..Len(tasks) : Len(Contribution(downloaded[i])) = 0

\* C5: when the listing yields no key, or no fragment contributes an event, the
\* attempt logs one warning, does not call mergeAndWrite and completes without
\* an error.
C5_EmptyBatchCompletes ==
    NothingAssembled =>
        /\ pc = "completed"
        /\ thrown = NoError
        /\ Count("logger.warn") = 1
        /\ Count("mergeAndWrite") = 0
        /\ Count("logger.error") = 0

C5_Witness == NothingAssembled /\ pc = "completed" /\ Len(tasks) = 0

C5_WitnessEmptyArrays == NothingAssembled /\ pc = "completed" /\ Len(tasks) = 2

\* C6: a rejection of count() does not fail the job: an attempt that is waiting
\* for the queue length after a successful merge goes on to complete.
C6_DepthReadFailureSwallowed ==
    [][pc = "counting" => pc' \in {"counting", "completed"}]_vars

\* C7: an attempt that has failed has logged the error with the job's projectId,
\* then passed it to traceException, and rejects with that same error (for a
\* fragment, the error of the first callback that rejected); an attempt that
\* completed raised no error.
C7_FailureLoggedTracedRethrown ==
    /\ pc = "failed" =>
         /\ thrown # NoError
         /\ Len(calls) >= 2
         /\ calls[Len(calls) - 1].op = "logger.error"
         /\ calls[Len(calls) - 1].arg = [projectId |-> job.projectId, error |-> thrown]
         /\ calls[Len(calls)].op = "traceException"
         /\ calls[Len(calls)].arg = thrown
         /\ Count("logger.error") = 1 /\ Count("traceException") = 1
         /\ thrown.origin # 0 =>
              /\ tasks[thrown.origin] = "rejected"
              /\ \A k \in 1..Len(settleOrder) :
                   tasks[settleOrder[k]] = "rejected" =>
                       \E m \in 1..k : settleOrder[m] = thrown.origin
    /\ pc = "completed" =>
         /\ thrown = NoError
         /\ Count("logger.error") = 0 /\ Count("traceException") = 0
         /\ ConfigOk(env) /\ eventName # <<>>
         /\ \A i \in 1..Len(tasks) : tasks[i] = "fulfilled"

C7_Witness ==
    /\ pc = "failed"
    /\ thrown.message = "Failed to parse event from S3"
    /\ thrown.origin = 2
    /\ job.projectId = <<"q">>
    /\ tasks = <<"rejected", "rejected">>

C7_WitnessMerge == pc = "failed" /\ thrown.message = "mergeAndWrite failed"

\* C8: the request counter is recorded in every attempt, whatever its outcome.
C8_RequestCountedEveryAttempt ==
    pc \in Settled =>
        \E k \in 1..Len(calls) :
            /\ calls[k].op = "recordIncrement"
            /\ calls[k].arg = "langfuse.queue.ingestion.request"

\* C9: without the flag or without the bucket name the attempt fails at once: no
\* client is constructed or cached, and nothing is listed, downloaded or merged.
C9_BadConfigFailsImmediately ==
    ~(env.enabled = "true" /\ env.bucket # "") =>
        /\ pc \in {"idle", "failed"}
        /\ s3StorageServiceClient = "undefined"
        /\ constructed = 0
        /\ \A k \in 1..Len(calls) : calls[k].op \in {"logger.error", "traceException"}
        /\ pc = "failed" =>
             thrown.message = "S3 event store is not enabled but useS3EventStore is true"

C9_Witness == pc = "failed" /\ env.enabled = "true" /\ env.bucket = ""

C9_WitnessFlag == pc = "failed" /\ env.enabled = "false" /\ env.bucket = "events"

\* the characters of tag before its first "-", all of them when it has none
BeforeFirstDash(tag) ==
    LET dashes == {i \in 1..Len(tag) : tag[i] = "-"}
    IN IF dashes = {} THEN tag
       ELSE SubSeq(tag, 1, (CHOOSE i \in dashes : \A k \in dashes : i <= k) - 1)

\* an attempt that passed the configuration check
PastConfig == pc # "idle" /\ env.enabled = "true" /\ env.bucket # ""

\* C10: the event name is the type tag up to its first "-"; an empty event name
\* fails the attempt before anything is listed, downloaded or merged; otherwise
\* the listing is asked for <prefix><projectId>/<event name>/<eventBodyId>/.
C10_EventNamePrefix ==
    PastConfig =>
        /\ eventName = BeforeFirstDash(job.type)
        /\ eventName = <<>> =>
             /\ pc = "failed"
             /\ thrown.message = "Event name not found"
             /\ Count("listFiles") = 0 /\ Count("download") = 0
             /\ Count("mergeAndWrite") = 0
        /\ eventName # <<>> =>
             /\ Count("listFiles") = 1
             /\ CallsOf("listFiles")[1].arg =
                  env.prefix \o job.projectId \o <<"/">> \o BeforeFirstDash(job.type)
                      \o <<"/">> \o job.eventBodyId \o <<"/">>

C10_Witness ==
    /\ PastConfig
    /\ job.type = <<"t", "-", "t">>
    /\ pc = "listing"
    /\ CallsOf("listFiles")[1].arg = <<"e", "/", "p", "/", "t", "/", "b", "/">>

C10_WitnessEmpty == PastConfig /\ job.type = <<"-", "t">> /\ pc = "failed"

\* the entity a batch is written as, by the type of an event
EntityOfType(type) == IF type = "score-create" THEN "score" ELSE "trace"

\* C11: mergeAndWrite is called with the entity type of the first assembled
\* event, the job's projectId, the job's eventBodyId and the whole assembled
\* sequence, also when later events are of another entity type.
C11_MergeArguments ==
    \A k \in 1..Len(calls) :
        calls[k].op = "mergeAndWrite" =>
            LET all == ListingOrder(Len(tasks))
            IN /\ calls[k].arg.events = all
               /\ Len(calls[k].arg.events) = Offset(Len(tasks) + 1)
               /\ calls[k].arg.entityType = EntityOfType(all[1].type)
               /\ calls[k].arg.projectId = job.projectId
               /\ calls[k].arg.eventBodyId = job.eventBodyId

C11_Witness ==
    /\ pc = "merging"
    /\ job.projectId = <<"q">>
    /\ Len(events) = 3
    /\ events[1].type = "trace-create"
    /\ events[3].type = "score-create"
    /\ calls[Len(calls)].op = "mergeAndWrite"
    /\ calls[Len(calls)].arg.entityType = "trace"

\* C12 as claimed: once the attempt has gone on to the merge step or has reached
\* its outcome, no fragment's download or validation is still in flight.
C12_NoOutcomeWhileInFlight ==
    pc \in {"merging", "counting", "completed", "failed"} =>
        \A i \in 1..Len(tasks) : tasks[i] # "downloading"

\* C12 amended: the attempt goes on past the assembly (to the merge step or to the
\* empty-batch return) only when every callback has fulfilled; it fails with
\* callbacks still in flight only because one callback has rejected, and then with
\* that callback's error.
C12_ProceedsOnlyWhenAllSettled ==
    /\ pc \in {"merging", "counting", "completed"} =>
         \A i \in 1..Len(tasks) : tasks[i] = "fulfilled"
    /\ pc = "failed" /\ (\E i \in 1..Len(tasks) : tasks[i] = "downloading") =>
         /\ \E i \in 1..Len(tasks) : tasks[i] = "rejected"
         /\ thrown.origin \in 1..Len(tasks)
         /\ tasks[thrown.origin] = "rejected"
         /\ Count("mergeAndWrite") = 0

C12_Witness ==
    /\ pc = "failed"
    /\ tasks = <<"downloading", "rejected">>
    /\ thrown.origin = 2

\* C13: the client is constructed at most once and not before an attempt has
\* passed the configuration check; once cached it is never replaced, and an
\* attempt that finds it cached constructs nothing.
C13_ClientConstructedOnce ==
    /\ [](/\ constructed <= 1
          /\ constructed = 1 <=> s3StorageServiceClient # "undefined"
          /\ Count("new S3StorageService") <= constructed
          /\ PastConfig => s3StorageServiceClient = env.bucket)
    /\ [][/\ constructed' # constructed =>
               /\ constructed = 0 /\ constructed' = 1
               /\ pc = "idle" /\ pc' # "idle"
               /\ env.enabled = "true" /\ env.bucket # ""
               /\ calls'[1].op = "new S3StorageService"
          /\ constructed' = constructed /\ pc = "idle" /\ pc' # "idle" =>
               \A k \in 1..Len(calls') : calls'[k].op # "new S3StorageService"
          /\ s3StorageServiceClient # "undefined" =>
               s3StorageServiceClient' = s3StorageServiceClient]_vars

C13_Witness ==
    /\ pc = "listing"
    /\ constructed = 1
    /\ s3StorageServiceClient = "events"
    /\ Count("new S3StorageService") = 0

\* part occurs in text as a run of consecutive elements
Contains(text, part) ==
    \E at \in 1..(Len(text) - Len(part) + 1) : SubSeq(text, at, at + Len(part) - 1) = part

\* C14: the error of a fragment that matches neither shape carries the
\* fragment's storage key and the schema error's message.
C14_ValidationErrorCarriesKey ==
    pc = "failed" /\ thrown.message = "Failed to parse event from S3" =>
        /\ Contains(ErrorMessage(thrown), <<thrown.detail>>)
        /\ Contains(ErrorMessage(thrown), eventFiles[thrown.origin])

\* the fragment is a valid array of events
ValidBatch(file) ==
    file.kind = "array" /\ \A k \in 1..Len(file.body) : file.body[k].type \in EventTypes

\* C15: a callback validates its fragment as a batch first and as a single event
\* only when that failed; a fragment that passes as a batch contributes its
\* array, one that passes as a single event contributes that event, and the
\* callback rejects exactly when both validations fail.
C15_BatchFirstThenSingle ==
    \A i \in 1..Len(tasks) :
        tasks[i] # "downloading" /\ downloaded[i] # NoFile /\ downloaded[i].kind # "invalidJson" =>
            LET file == downloaded[i]
            IN /\ validations[i][1] = "batch"
               /\ ValidBatch(file) =>
                    /\ validations[i] = <<"batch">>
                    /\ tasks[i] = "fulfilled" /\ results[i] = file.body
               /\ ~ValidBatch(file) => validations[i] = <<"batch", "single">>
               /\ ~ValidBatch(file) /\ ValidFragment(file) =>
                    tasks[i] = "fulfilled" /\ results[i] = <<file.body[1]>>
               /\ tasks[i] = "rejected" <=> ~ValidFragment(file)

C15_Witness ==
    /\ Len(tasks) = 2
    /\ validations = << <<"batch">>, <<"batch", "single">> >>
    /\ Len(results[1]) = 2
    /\ tasks = <<"fulfilled", "rejected">>

\* the place of the first call of op in calls, 0 when there is none
FirstCall(op) ==
    IF Count(op) = 0 THEN 0
    ELSE CHOOSE k \in 1..Len(calls) :
             calls[k].op = op /\ \A m \in 1..(k - 1) : calls[m].op # op

\* C16: listing comes after the configuration check, every download after the
\* return of the listing, the merge after the downloads, and an attempt that
\* completes, by the merge branch or by the empty-batch branch, has passed
\* through the telemetry stage.
C16_StageOrder ==
    /\ Count("listFiles") > 0 => env.enabled = "true" /\ env.bucket # ""
    /\ pc = "listing" => Count("download") = 0
    /\ \A k \in 1..Len(calls) :
         calls[k].op \in {"download", "mergeAndWrite", "logger.warn"} =>
             FirstCall("listFiles") \in 1..(k - 1)
    /\ \A k \in 1..Len(calls) :
         calls[k].op = "download" =>
             FirstCall("mergeAndWrite") = 0 \/ k < FirstCall("mergeAndWrite")
    /\ pc = "completed" =>
         /\ Count("mergeAndWrite") + Count("logger.warn") = 1
         /\ \E k \in 1..Len(calls) :
              /\ calls[k].op \in {"recordIncrement", "recordHistogram", "recordGauge"}
              /\ FirstCall("mergeAndWrite") < k
              /\ FirstCall("logger.warn") < k

\* C17: the wait-time histogram records the attempt's start time minus the job's
\* enqueue timestamp.
C17_WaitTimeIsClaimMinusEnqueue ==
    \A k \in 1..Len(calls) :
        calls[k].op = "recordHistogram" =>
            (calls[k].arg.name = "langfuse.queue.ingestion.wait_time" =>
                calls[k].arg.value = startTime - job.timestamp)

\* calls[k] records the processing time
IsProcessingTime(k) ==
    /\ calls[k].op = "recordHistogram"
    /\ calls[k].arg.name = "langfuse.queue.ingestion.processing_time"

\* C18: the processing-time histogram is never recorded in an attempt that
\* fails; when it is recorded it is the last thing the attempt does, after the
\* merge and the queue-length read, and its value is the time since the
\* attempt's start.
C18_ProcessingTimeOnSuccessOnly ==
    \A k \in 1..Len(calls) :
        IsProcessingTime(k) =>
            /\ pc = "completed"
            /\ k = Len(calls)
            /\ calls[k].arg.value = now - startTime
            /\ FirstCall("mergeAndWrite") \in 1..(k - 1)
            /\ FirstCall("count") < k
            /\ \A m \in 1..Len(calls) : IsProcessingTime(m) => m = k

C18_Witness ==
    /\ pc = "completed"
    /\ IsProcessingTime(Len(calls))
    /\ calls[Len(calls)].arg.value = 1
    /\ Count("count") = 1
    /\ job.timestamp = 0

\* C19: an attempt lists at most once and issues exactly one download per listed
\* key, all of them right after the listing returns and before any of them
\* settles, also when a fragment of the job fails.
C19_NoInternalRetry ==
    /\ Count("listFiles") <= 1
    /\ Count("download") = Len(eventFiles)
    /\ \A i \in 1..Len(eventFiles) :
         /\ Cardinality({k \in 1..Len(calls) :
                            calls[k].op = "download" /\ calls[k].arg = eventFiles[i]}) = 1
         /\ calls[FirstCall("listFiles") + i].op = "download"
         /\ calls[FirstCall("listFiles") + i].arg = eventFiles[i]

C19_Witness ==
    /\ pc = "failed"
    /\ tasks = <<"rejected", "fulfilled">>
    /\ settleOrder = <<1, 2>>
    /\ Count("download") = 2
    /\ Count("listFiles") = 1

\* redis or prisma is null
ClientMissing == redis = "null" \/ prisma = "null"

\* C20: with a non-empty batch and redis or prisma missing the attempt fails
\* without calling mergeAndWrite; with an empty batch it completes even when one
\* of them is missing; the attempt fails for a missing client only when the
\* batch is non-empty.
C20_ClientsCheckedAfterEmptyCheck ==
    /\ Assembled /\ Len(events) > 0 /\ ClientMissing =>
         /\ pc = "failed"
         /\ Count("mergeAndWrite") = 0
         /\ thrown.message =
              IF redis = "null" THEN "Redis not available" ELSE "Prisma not available"
    /\ NothingAssembled /\ ClientMissing =>
         pc = "completed" /\ thrown = NoError /\ Count("logger.error") = 0
    /\ thrown.message \in {"Redis not available", "Prisma not available"} =>
         Len(events) > 0 /\ ClientMissing

C20_Witness ==
    /\ NothingAssembled
    /\ Len(tasks) = 1
    /\ redis = "client" /\ prisma = "null"
    /\ pc = "completed"

C20_WitnessNonEmpty ==
    /\ Assembled /\ Len(events) = 2
    /\ redis = "null"
    /\ pc = "failed"

====
